---- MODULE Spec2Model ----
(***************************************************************************)
(* A model of rs-complete's CompletionTree (src/src/completion_tree.rs):   *)
(* a character trie with an inclusion set, a minimum word length and a     *)
(* word-separator policy.                                                  *)
(*                                                                         *)
(* A char is its Unicode code point; a string is a sequence of chars.      *)
(* A CompletionNode is a record [subnodes, leaf, inclusions], subnodes a   *)
(* function from the chars that have a child to the child nodes (the       *)
(* BTreeMap<char, CompletionNode>).                                        *)
(***************************************************************************)
EXTENDS Integers, Sequences, FiniteSets, TLC

VARIABLES
    root,          \* CompletionTree.root
    inclusions,    \* CompletionTree.inclusions
    min_word_len,  \* CompletionTree.min_word_len
    separator,     \* CompletionTree.separator
    accepted,      \* history: the tokens insert_word accepted since construction or the last clear()
    base_count,    \* history: word_count() right after construction or the last clear()
    fed            \* history: the number of chars handed to insert() since construction or the last clear()

vars == <<root, inclusions, min_word_len, separator, accepted, base_count, fed>>

-----------------------------------------------------------------------------
(* Bounds and inputs *)

\* the most chars handed to insert(), over all its calls, between two clear()
\* calls
MaxInput == 3

\* the most chars of a line handed to complete()
MaxQuery == 2

\* min_word_len: 5 in CompletionTree::default()
DefaultMinWordLen == 5

\* the chars of the model: a whitespace, an ASCII letter, an ASCII punctuation
\* character and a letter whose UTF-8 encoding takes two bytes
Char == [space |-> 32, a |-> 97, bar |-> 124, e_acute |-> 233]

Alphabet == {Char.space, Char.a, Char.bar, Char.e_acute}

\* every string of at most n chars
Strings(n) == UNION {[1..k -> Alphabet] : k \in 0..n}

\* the lines handed to insert()
Lines == Strings(MaxInput)

\* the lines handed to complete()
Queries == Strings(MaxQuery)

\* the arguments of with_inclusions() (the empty one is CompletionTree::default())
InclusionSets == {{}, {Char.space, Char.bar}}

\* the arguments of set_min_word_len()
MinWordLens == {0, DefaultMinWordLen}

\* WordSeparator: Whitespace, or Separator(sep) for a literal delimiter
Whitespace == [kind |-> "Whitespace"]

Separator(sep) == [kind |-> "Separator", sep |-> sep]

Separators == {Whitespace, Separator(<<Char.bar>>)}

-----------------------------------------------------------------------------
(* chars and strings, as Rust's std has them *)

\* char::is_alphanumeric
IsAlphanumeric(c) == c \in (48..57) \cup (65..90) \cup (97..122) \cup {Char.e_acute}

\* char::is_whitespace (the ASCII part, which is all the model's alphabet has)
IsWhitespace(c) == c \in (9..13) \cup {32}

\* char::len_utf8
LenUtf8(c) == IF c < 128 THEN 1 ELSE IF c < 2048 THEN 2 ELSE IF c < 65536 THEN 3 ELSE 4

\* str::len: the length in bytes
RECURSIVE StrLen(_)
StrLen(s) == IF s = <<>> THEN 0 ELSE LenUtf8(Head(s)) + StrLen(Tail(s))

\* str::chars().count(): the length in chars
CharCount(s) == Len(s)

\* whether p is a prefix of s
IsPrefix(p, s) == Len(p) <= Len(s) /\ SubSeq(s, 1, Len(p)) = p

\* str::split_whitespace: the maximal runs of non-whitespace chars, in order
RECURSIVE SplitWhitespaceFrom(_, _)
SplitWhitespaceFrom(s, word) ==
    IF s = <<>> THEN (IF word = <<>> THEN <<>> ELSE <<word>>)
    ELSE IF IsWhitespace(Head(s))
         THEN (IF word = <<>> THEN <<>> ELSE <<word>>) \o SplitWhitespaceFrom(Tail(s), <<>>)
         ELSE SplitWhitespaceFrom(Tail(s), Append(word, Head(s)))

SplitWhitespace(s) == SplitWhitespaceFrom(s, <<>>)

\* str::split(sep) for a non-empty sep: the pieces between the leftmost
\* non-overlapping occurrences of sep, empty pieces included
RECURSIVE SplitFrom(_, _, _)
SplitFrom(s, sep, piece) ==
    IF s = <<>> THEN <<piece>>
    ELSE IF IsPrefix(sep, s)
         THEN <<piece>> \o SplitFrom(SubSeq(s, Len(sep) + 1, Len(s)), sep, <<>>)
         ELSE SplitFrom(Tail(s), sep, Append(piece, Head(s)))

Split(s, sep) == SplitFrom(s, sep, <<>>)

\* String's Ord: lexicographic on the bytes of the UTF-8 encoding, which is
\* the lexicographic order on the code points
RECURSIVE StrLess(_, _)
StrLess(s, t) ==
    IF t = <<>> THEN FALSE
    ELSE IF s = <<>> THEN TRUE
    ELSE IF Head(s) # Head(t) THEN Head(s) < Head(t)
    ELSE StrLess(Tail(s), Tail(t))

\* Vec<String>::sort, as an insertion sort (the sort is stable, and equal
\* strings are indistinguishable): s put in its place in the sorted v
RECURSIVE SortInsert(_, _)
SortInsert(s, v) ==
    IF v = <<>> THEN <<s>>
    ELSE IF StrLess(s, Head(v)) THEN <<s>> \o v
    ELSE <<Head(v)>> \o SortInsert(s, Tail(v))

RECURSIVE InsertionSort(_)
InsertionSort(v) ==
    IF v = <<>> THEN <<>> ELSE SortInsert(Head(v), InsertionSort(Tail(v)))

\* a sort with the comparison the wrong way round: descending
SortDescending(v) ==
    LET sorted == InsertionSort(v)
    IN  [i \in 1..Len(sorted) |-> sorted[Len(sorted) + 1 - i]]

\* extensions.sort() in CompletionTree::complete
Sort(v) == InsertionSort(v)

\* Option<T>
None == [tag |-> "None"]

Some(v) == [tag |-> "Some", val |-> v]

-----------------------------------------------------------------------------
(* CompletionNode *)

\* BTreeMap::new()
EmptyMap == [c \in {} |-> {}]

\* CompletionNode::new
NewNode(incl) == [subnodes |-> EmptyMap, leaf |-> FALSE, inclusions |-> incl]

\* CompletionNode::clear: the children go, the node's own leaf flag stays
NodeClear(node) == [node EXCEPT !.subnodes = EmptyMap]

\* the sum of f over the keys in S
RECURSIVE SumOver(_, _)
SumOver(f, S) ==
    IF S = {} THEN 0
    ELSE LET c == CHOOSE x \in S : TRUE IN f[c] + SumOver(f, S \ {c})

\* CompletionNode::word_count
RECURSIVE NodeWordCount(_)
NodeWordCount(node) ==
    LET counts == [c \in DOMAIN node.subnodes |-> NodeWordCount(node.subnodes[c])]
        count  == SumOver(counts, DOMAIN counts)
    IN  IF node.leaf THEN count + 1 ELSE count

\* CompletionNode::subnode_count
RECURSIVE NodeSubnodeCount(_)
NodeSubnodeCount(node) ==
    LET counts == [c \in DOMAIN node.subnodes |-> NodeSubnodeCount(node.subnodes[c])]
    IN  SumOver(counts, DOMAIN counts) + 1

\* a condition that takes every char but whitespace for a word constituent
AcceptsNonWhitespace(node, c) == c \in node.inclusions \/ ~IsWhitespace(c)

\* the condition under which CompletionNode::insert descends on a char
Accepts(node, c) == c \in node.inclusions \/ IsAlphanumeric(c)

\* CompletionNode::insert
\* CompletionNode::insert that creates the path of a word without marking its
\* last node
RECURSIVE NodeInsertUnterminated(_, _)
NodeInsertUnterminated(node, iter) ==
    IF iter # <<>>
    THEN LET c == Head(iter) IN
         IF Accepts(node, c)
         THEN LET subnode == IF c \in DOMAIN node.subnodes
                             THEN node.subnodes[c]
                             ELSE NewNode(node.inclusions)
              IN  [node EXCEPT !.subnodes =
                       [k \in DOMAIN node.subnodes \cup {c} |->
                           IF k = c THEN NodeInsertUnterminated(subnode, Tail(iter))
                           ELSE node.subnodes[k]]]
         ELSE [node EXCEPT !.leaf = TRUE]
    ELSE node

RECURSIVE NodeInsert(_, _)
NodeInsert(node, iter) ==
    IF iter # <<>>
    THEN LET c == Head(iter) IN
         IF Accepts(node, c)
         THEN LET subnode == IF c \in DOMAIN node.subnodes
                             THEN node.subnodes[c]
                             ELSE NewNode(node.inclusions)
              IN  [node EXCEPT !.subnodes =
                       [k \in DOMAIN node.subnodes \cup {c} |->
                           IF k = c THEN NodeInsert(subnode, Tail(iter))
                           ELSE node.subnodes[k]]]
         ELSE [node EXCEPT !.leaf = TRUE]
    ELSE [node EXCEPT !.leaf = TRUE]

\* the keys of a BTreeMap in iteration order: ascending
RECURSIVE KeysAscending(_)
KeysAscending(S) ==
    IF S = {} THEN <<>>
    ELSE LET c == CHOOSE x \in S : \A y \in S : x <= y
         IN  <<c>> \o KeysAscending(S \ {c})

\* CompletionNode::collect
RECURSIVE NodeCollect(_, _)
RECURSIVE CollectSubnodes(_, _, _)
NodeCollect(node, partial) ==
    (IF node.leaf THEN <<partial>> ELSE <<>>)
        \o CollectSubnodes(node, partial, KeysAscending(DOMAIN node.subnodes))

\* the loop of CompletionNode::collect over the subnodes
CollectSubnodes(node, partial, keys) ==
    IF keys = <<>> THEN <<>>
    ELSE NodeCollect(node.subnodes[Head(keys)], Append(partial, Head(keys)))
            \o CollectSubnodes(node, partial, Tail(keys))

\* CompletionNode::complete
RECURSIVE NodeComplete(_, _)
NodeComplete(node, iter) ==
    IF iter # <<>>
    THEN LET c == Head(iter) IN
         IF c \in DOMAIN node.subnodes
         THEN NodeComplete(node.subnodes[c], Tail(iter))
         ELSE None
    ELSE Some(NodeCollect(node, <<>>))

-----------------------------------------------------------------------------
(* CompletionTree *)

\* a filter that drops the words of exactly the minimum length
WordAcceptedOffByOne(word, min) == StrLen(word) > min

\* the condition of CompletionTree::insert_word
WordAccepted(word, min) == StrLen(word) >= min

\* CompletionTree::insert_word, on the root
InsertWord(node, word, min) ==
    IF WordAccepted(word, min) THEN NodeInsert(node, word) ELSE node

\* the tokens CompletionTree::insert splits a line into
Tokens(line, policy) ==
    IF policy.kind = "Whitespace" THEN SplitWhitespace(line) ELSE Split(line, policy.sep)

\* the for_each of CompletionTree::insert
RECURSIVE InsertWords(_, _, _)
InsertWords(node, words, min) ==
    IF words = <<>> THEN node
    ELSE InsertWords(InsertWord(node, Head(words), min), Tail(words), min)

\* CompletionTree::insert, on the root
TreeInsert(node, line, policy, min) == InsertWords(node, Tokens(line, policy), min)

\* a map that returns the extensions alone, without the line before them
PrependNothing(line, extensions) == extensions

\* the map of CompletionTree::complete: format!("{}{}", line, ext) for each ext
Prepend(line, extensions) == [i \in 1..Len(extensions) |-> line \o extensions[i]]

\* CompletionTree::complete
TreeComplete(node, line) ==
    IF line # <<>>
    THEN LET words     == SplitWhitespace(line)
             last_word == IF words = <<>> THEN <<>> ELSE words[Len(words)]
             found     == NodeComplete(node, last_word)
         IN  IF found # None THEN Some(Prepend(line, Sort(found.val))) ELSE None
    ELSE None

\* CompletionTree::complete on the tree of the state
Complete(line) == TreeComplete(root, line)

\* CompletionTree::word_count
WordCount == NodeWordCount(root)

\* CompletionTree::size
Size == NodeSubnodeCount(root)

-----------------------------------------------------------------------------
(* The operations *)

\* CompletionTree::default and CompletionTree::with_inclusions
Init ==
    /\ inclusions \in InclusionSets
    /\ root = NewNode(inclusions)
    /\ min_word_len = DefaultMinWordLen
    /\ separator = Whitespace
    /\ accepted = {}
    /\ base_count = 0
    /\ fed = 0

\* history only: the tokens of a line that are at least min bytes long, which
\* are those CompletionTree::insert hands on to the root
AcceptedTokens(line, policy, min) ==
    LET words == Tokens(line, policy)
    IN  {words[i] : i \in {j \in 1..Len(words) : StrLen(words[j]) >= min}}

\* CompletionTree::insert
Insert(line) ==
    /\ fed + Len(line) <= MaxInput
    /\ root' = TreeInsert(root, line, separator, min_word_len)
    /\ accepted' = accepted \cup AcceptedTokens(line, separator, min_word_len)
    /\ fed' = fed + Len(line)
    /\ UNCHANGED <<inclusions, min_word_len, separator, base_count>>

\* CompletionTree::clear
Clear ==
    /\ root' = NodeClear(root)
    /\ accepted' = {}
    /\ base_count' = NodeWordCount(root')
    /\ fed' = 0
    /\ UNCHANGED <<inclusions, min_word_len, separator>>

\* CompletionTree::set_min_word_len
SetMinWordLen(len) ==
    /\ min_word_len' = len
    /\ UNCHANGED <<root, inclusions, separator, accepted, base_count, fed>>

\* CompletionTree::separator
SetSeparator(sep) ==
    /\ separator' = sep
    /\ UNCHANGED <<root, inclusions, min_word_len, accepted, base_count, fed>>

Next ==
    \/ \E line \in Lines : Insert(line)
    \/ Clear
    \/ \E len \in MinWordLens : SetMinWordLen(len)
    \/ \E sep \in Separators : SetSeparator(sep)

Spec == Init /\ [][Next]_vars

-----------------------------------------------------------------------------
(* The vocabulary of the claims *)

\* the elements of a list
Range(v) == {v[i] : i \in 1..Len(v)}

\* a word constituent: an alphanumeric char or one of the inclusion set
IsConstituent(c, incl) == IsAlphanumeric(c) \/ c \in incl

\* the accepted form of a token: the part before its first char that is no
\* word constituent
AcceptedForm(w, incl) ==
    LET bad == {i \in 1..Len(w) : ~IsConstituent(w[i], incl)}
    IN  IF bad = {} THEN w
        ELSE SubSeq(w, 1, (CHOOSE i \in bad : \A j \in bad : i <= j) - 1)

\* the non-empty prefixes of a string
Prefixes(s) == {SubSeq(s, 1, k) : k \in 1..Len(s)}

\* whether a string has a whitespace char
HasWhitespace(s) == \E i \in 1..Len(s) : IsWhitespace(s[i])

\* whether the trie below node has a path spelling s that ends in a terminal node
RECURSIVE HasWord(_, _)
HasWord(node, s) ==
    IF s = <<>> THEN node.leaf
    ELSE /\ Head(s) \in DOMAIN node.subnodes
         /\ HasWord(node.subnodes[Head(s)], Tail(s))

\* the words the tree stores
StoredWords == {s \in Lines : HasWord(root, s)}

\* the chars that label the edges of the trie below node
RECURSIVE EdgeLabels(_)
EdgeLabels(node) ==
    DOMAIN node.subnodes
        \cup UNION {EdgeLabels(node.subnodes[c]) : c \in DOMAIN node.subnodes}

\* the last whitespace-delimited token of a line, empty when it has none
LastToken(line) ==
    LET words == SplitWhitespace(line)
    IN  IF words = <<>> THEN <<>> ELSE words[Len(words)]

\* the part of a line before its last whitespace-delimited token: the line
\* less that token and the whitespace after it
BeforeLastToken(line) ==
    LET ends == {i \in 1..Len(line) : ~IsWhitespace(line[i])}
        last == IF ends = {} THEN 0 ELSE CHOOSE i \in ends : \A j \in ends : j <= i
    IN  SubSeq(line, 1, last - Len(LastToken(line)))

\* the accepted forms of a list of tokens
AcceptedForms(words, incl) == [i \in 1..Len(words) |-> AcceptedForm(words[i], incl)]

\* the strings of a list joined by sep
RECURSIVE Join(_, _)
Join(words, sep) ==
    IF words = <<>> THEN <<>>
    ELSE IF Len(words) = 1 THEN words[1]
    ELSE words[1] \o sep \o Join(Tail(words), sep)

\* the tree after one insert call per token
RECURSIVE InsertEach(_, _, _, _)
InsertEach(node, words, policy, min) ==
    IF words = <<>> THEN node
    ELSE InsertEach(TreeInsert(node, Head(words), policy, min), Tail(words), policy, min)

-----------------------------------------------------------------------------
(* Claims *)

\* C1 (as claimed): immediately after clear() the tree is a fresh empty root,
\* size() = 1 and word_count() = 0, whatever it held before.
C1_ClearResets == [][Clear => (Size' = 1 /\ WordCount' = 0)]_vars

\* C2 (as claimed): every accepted token's accepted form a is in complete(p)
\* for every non-empty prefix p of a, and every string of that list starts
\* with p.
C2_EveryPrefixCompletes ==
    \A w \in accepted :
        LET a == AcceptedForm(w, inclusions) IN
        \A p \in Prefixes(a) :
            LET r == Complete(p) IN
            /\ r # None
            /\ a \in Range(r.val)
            /\ \A x \in Range(r.val) : IsPrefix(p, x)

\* C2 (amended): every accepted token's accepted form a is in complete(p) for
\* every non-empty prefix p of a that has no whitespace char, and every string
\* of that list starts with p.
C2_PrefixWithoutWhitespaceCompletes ==
    \A w \in accepted :
        LET a == AcceptedForm(w, inclusions) IN
        \A p \in Prefixes(a) :
            LET r == Complete(p) IN
            ~HasWhitespace(p) =>
                /\ r # None
                /\ a \in Range(r.val)
                /\ \A x \in Range(r.val) : IsPrefix(p, x)

\* C2 (witness): a token was stored truncated, and completing the first char
\* of its accepted form returns that form and not another stored word
C2_Witness ==
    \E w \in accepted, v \in accepted :
        LET a == AcceptedForm(w, inclusions)
            b == AcceptedForm(v, inclusions)
        IN  /\ a # w /\ a # <<>> /\ b # <<>> /\ a[1] # b[1]
            /\ Complete(<<a[1]>>) # None
            /\ a \in Range(Complete(<<a[1]>>).val)
            /\ b \notin Range(Complete(<<a[1]>>).val)

\* C3 (as claimed): complete(line) is None for the empty line and for a line
\* whose last whitespace-delimited token is a prefix of no stored word; a list
\* it returns is never empty.
C3_NoMatchIsNone ==
    \A line \in Queries :
        LET r == Complete(line) IN
        /\ line = <<>> => r = None
        /\ (\A s \in StoredWords : ~IsPrefix(LastToken(line), s)) => r = None
        /\ r # None => r.val # <<>>

\* C4 (as claimed): a tree that started empty holds as many words as distinct
\* tokens were accepted.
C4_CountsDistinctTokens ==
    base_count = 0 => WordCount = Cardinality(accepted)

\* C4 (amended): a tree that started empty holds as many words as the
\* accepted tokens have distinct accepted forms.
C4_CountsDistinctAcceptedForms ==
    base_count = 0 =>
        WordCount = Cardinality({AcceptedForm(w, inclusions) : w \in accepted})

\* C4 (witness): two accepted tokens, the accepted form of one a proper prefix
\* of the other's, counted as two words in a tree that started empty
C4_Witness ==
    /\ base_count = 0
    /\ WordCount = 2
    /\ \E w \in accepted, v \in accepted :
           LET a == AcceptedForm(w, inclusions)
               b == AcceptedForm(v, inclusions)
           IN  a # <<>> /\ a # b /\ IsPrefix(a, b)

\* C5 (as claimed): insert stores the accepted forms of the tokens that have
\* at least min_word_len chars, and no other; when a line has no such token
\* the trie, word_count(), size() and every complete result stay as they are.
C5_FilterCountsChars ==
    [][\A line \in Lines :
          Insert(line) =>
              LET long == {w \in Range(Tokens(line, separator)) :
                              CharCount(w) >= min_word_len}
              IN  /\ StoredWords' =
                        StoredWords \cup {AcceptedForm(w, inclusions) : w \in long}
                  /\ long = {} =>
                        /\ root' = root
                        /\ WordCount' = WordCount
                        /\ Size' = Size
                        /\ \A l \in Queries : Complete(l)' = Complete(l)]_vars

\* C6 (as claimed): insert leaves the tree as inserting, instead of each
\* token, the token's accepted form would leave it.
C6_TruncatedPartAlone ==
    [][\A line \in Lines :
          Insert(line) =>
              root' = InsertWords(root, AcceptedForms(Tokens(line, separator), inclusions),
                                  min_word_len)]_vars

\* C7: every edge of the trie is labelled by a word constituent; complete is
\* None for a line whose last token has a char that is none; and a stored
\* word, whatever constituents it has, is in the list complete returns for it.
C7_EdgesAreConstituents ==
    /\ \A c \in EdgeLabels(root) : IsConstituent(c, inclusions)
    /\ \A line \in Queries :
           LET last == LastToken(line) IN
           (\E i \in 1..Len(last) : ~IsConstituent(last[i], inclusions))
               => Complete(line) = None
    /\ \A s \in StoredWords :
           LET r == Complete(s) IN
           (s # <<>> /\ ~HasWhitespace(s)) => (r # None /\ s \in Range(r.val))

\* C7 (witness): with '|' in the inclusion set, two words that start with '|'
\* are stored and completing "|" returns both
C7_Witness ==
    /\ Char.bar \in inclusions
    /\ \E s \in StoredWords, t \in StoredWords :
           /\ s # t /\ Len(s) >= 2 /\ s[1] = Char.bar /\ t # <<>> /\ t[1] = Char.bar
           /\ Complete(<<Char.bar>>) # None
           /\ {s, t} \subseteq Range(Complete(<<Char.bar>>).val)

\* C8 (as claimed): every string complete(line) returns is the line with a
\* suffix appended, its last whitespace-delimited token is a stored word that
\* starts with the line's last token, and what precedes that token is as in
\* the line.
C8_LastWordCompletedInPlace ==
    \A line \in Queries :
        LET r == Complete(line) IN
        (line # <<>> /\ r # None) =>
            \A x \in Range(r.val) :
                /\ IsPrefix(line, x)
                /\ LastToken(x) \in StoredWords
                /\ IsPrefix(LastToken(line), LastToken(x))
                /\ BeforeLastToken(x) = BeforeLastToken(line)

\* C9: a list complete(line) returns is in strictly ascending lexicographic
\* order.
C9_SortedStrictly ==
    \A line \in Queries :
        LET r == Complete(line) IN
        r # None => \A i \in 1..(Len(r.val) - 1) : StrLess(r.val[i], r.val[i + 1])

\* C9 (witness): complete returns three strings
C9_Witness ==
    \E line \in Queries : Complete(line) # None /\ Len(Complete(line).val) >= 3

\* C10 (as claimed): a list of tokens joined by the delimiter and inserted
\* under Separator(delimiter) leaves the tree as the same tokens joined by a
\* space and inserted under Whitespace leave it, and as the tokens inserted
\* one per call leave it.
C10_SeparatorsAgree ==
    \A sep \in Separators \ {Whitespace} :
        \A line \in Lines :
            LET tokens == Split(line, sep.sep) IN
            (\A i \in 1..Len(tokens) : ~HasWhitespace(tokens[i])) =>
                LET joined == TreeInsert(root, line, sep, min_word_len) IN
                /\ joined = TreeInsert(root, Join(tokens, <<Char.space>>), Whitespace,
                                       min_word_len)
                /\ joined = InsertEach(root, tokens, sep, min_word_len)
                /\ joined = InsertEach(root, tokens, Whitespace, min_word_len)

\* the nodes below node that have no children and end no word
RECURSIVE DeadEnds(_)
DeadEnds(node) ==
    LET children == {node.subnodes[c] : c \in DOMAIN node.subnodes} IN
    {n \in children : DOMAIN n.subnodes = {} /\ ~n.leaf}
        \cup UNION {DeadEnds(n) : n \in children}

\* the nodes below node that have children and end no word
RECURSIVE PassThroughNodes(_)
PassThroughNodes(node) ==
    LET children == {node.subnodes[c] : c \in DOMAIN node.subnodes} IN
    {n \in children : DOMAIN n.subnodes # {} /\ ~n.leaf}
        \cup UNION {PassThroughNodes(n) : n \in children}

\* C11: no node other than the root is both childless and non-terminal, the
\* root always exists, and size() >= 1.
C11_NoDeadEnds ==
    /\ DeadEnds(root) = {}
    /\ DOMAIN root = {"subnodes", "leaf", "inclusions"}
    /\ Size >= 1

\* C11 (witness): the trie has a non-terminal node below the root that leads
\* to a terminal childless node
C11_Witness ==
    /\ Size >= 3
    /\ PassThroughNodes(root) # {}
    /\ WordCount >= 1

====
